---- MODULE Spec2Model ----
(***************************************************************************)
(* The asynchronous task tracker of backend/server.py and the three-stage  *)
(* generation pipeline of backend/strands_agent.py.                        *)
(*                                                                         *)
(* run_generation_task is a plain (non-async) function handed to           *)
(* BackgroundTasks, so it runs on a worker thread while the async request  *)
(* handlers run on the event loop: the handlers are atomic with respect to *)
(* each other, and a worker's statements interleave with them and with the *)
(* statements of the other workers.  A worker is therefore modelled one    *)
(* statement at a time; pc[t] names the source line the worker of task t   *)
(* executes next: "L<n>" is line n of server.py, "A<n>" line n of          *)
(* strands_agent.py, and "L268r" the return of the call made at line 268.  *)
(*                                                                         *)
(* The tool-augmented sessions are external: a call to one either raises   *)
(* or returns a response.  A response is represented by what the           *)
(* extractor's searches find in it.  Floats that hold money are integers   *)
(* counting thousandths of a dollar; no amount drawn has a third decimal   *)
(* of 5, so rounding to cents never meets a tie.  In the task tracker      *)
(* datetime.now() is not followed: every timestamp is the same opaque      *)
(* string.  The clock and the diagrams directory are followed in           *)
(* StoreSpec, the extractors on their own in ExtractSpec, and the          *)
(* synchronous endpoint in SyncSpec.                                       *)
(***************************************************************************)
EXTENDS Integers, Sequences, FiniteSets, TLC

\* Number of submissions (POST /generate/start) the model follows.
MaxTasks == 2

TaskIds == 1..MaxTasks

\* Number of submissions followed beside the synchronous requests, and number
\* of synchronous requests (POST /generate) followed.
MaxSyncTasks == 1
MaxSync == 1

SyncIds == 1..MaxSync

\* The largest amount, in cents, looked for when a formatted amount is read
\* back as a number.
MaxCents == 4250

\* Number of generations whose diagram stage is followed, and the last
\* instant of the clock.
MaxSavers == 2
MaxClock == 3

SaverIds == 1..MaxSavers

\* Optional values: Python's None and a present value.
None == << >>
Some(v) == <<v>>

\* The outcome of a call: a returned value or a raised exception.
Return(v) == [raised |-> FALSE, value |-> v]
Raise(e) == [raised |-> TRUE, value |-> e]

\* dict.get(key, default)
Get(d, k, default) == IF k \in DOMAIN d THEN d[k] ELSE default

(***************************************************************************)
(* Text and number formatting                                              *)
(***************************************************************************)
Digits == <<"0", "1", "2", "3", "4", "5", "6", "7", "8", "9">>

RECURSIVE IntToStr(_)
IntToStr(n) ==
    IF n < 10 THEN Digits[n + 1]
    ELSE IntToStr(n \div 10) \o Digits[(n % 10) + 1]

\* The number of cents an amount of x thousandths is rounded to by ":.2f".
Cents(x) == (x + 5) \div 10

\* f"${x:.2f}" for an amount of x thousandths
Money(x) ==
    "$" \o IntToStr(Cents(x) \div 100) \o "."
        \o Digits[((Cents(x) % 100) \div 10) + 1] \o Digits[(Cents(x) % 10) + 1]

\* datetime.now().isoformat() and datetime.now().strftime("%Y%m%d_%H%M%S")
NowIso == "datetime.now().isoformat()"
NowStamp == "YYYYmmdd_HHMMSS"

(***************************************************************************)
(* Fixed values of the agent                                               *)
(***************************************************************************)
VersionMarker == "AWSTemplateFormatVersion"

\* A template is its version line, its description and the types of its
\* resources, in document order.
_get_fallback_cf_template ==
    [version |-> VersionMarker,
     description |-> "Sample VPC with two subnets",
     resources |-> <<"AWS::EC2::VPC", "AWS::EC2::Subnet", "AWS::EC2::Subnet">>]

_generate_fallback_template ==
    [version |-> VersionMarker,
     description |-> "AWS Architecture generated by Strands Agent",
     resources |-> <<"AWS::EC2::VPC", "AWS::EC2::InternetGateway",
                     "AWS::EC2::VPCGatewayAttachment">>]

_get_fallback_diagram_url == "/diagram/sample.png"

_get_fallback_pricing ==
    [totalMonthlyCost |-> "$0.00",
     currency |-> "USD",
     region |-> "us-east-1",
     breakdown |-> <<[service |-> "VPC", cost |-> "$0.00",
                      unit |-> "monthly", details |-> "VPC is free"]>>,
     annual |-> 0]

_get_fallback_data ==
    [cfTemplate |-> _generate_fallback_template,
     pricing |-> [totalMonthly |-> 125000,
                  currency |-> "USD",
                  region |-> "us-east-1",
                  breakdown |-> <<[service |-> "AWS Services", cost |-> 125000,
                                   type |-> "general",
                                   description |-> "Estimated cost based on requirements"]>>,
                  annual |-> 1500000],
     diagramUrl |-> "/diagram/sample.png"]

(***************************************************************************)
(* Responses of the tool-augmented sessions and their extractors           *)
(*                                                                         *)
(* A response is the record of what each search of its extractor finds in  *)
(* the text, in the order the extractor tries them.                        *)
(***************************************************************************)

\* The template an agent writes for a requirements text.
AgentTemplate(requirements) ==
    [version |-> VersionMarker,
     description |-> requirements,
     resources |-> <<"AWS::EC2::VPC", "AWS::EC2::Subnet", "AWS::EC2::Instance",
                     "AWS::RDS::DBInstance">>]

\* The same template cut at its first blank line, as the bare-marker search
\* captures it.
AgentTemplateHead(requirements) ==
    [version |-> VersionMarker, description |-> requirements, resources |-> << >>]

\* yaml_block: group 1 of the ```yaml search; bare_block: of the untagged
\* fence search; marker_run: of the bare marker search (None: no match).
CfResponses(requirements) ==
    { [yaml_block |-> Some(AgentTemplate(requirements)),
       bare_block |-> None,
       marker_run |-> Some(AgentTemplateHead(requirements))] }

\* Mutant: the untagged fence is searched before the yaml fence.
_extract_cf_template_bare_first(response) ==
    LET cf_match ==
            IF response.bare_block # None THEN response.bare_block
            ELSE IF response.yaml_block # None THEN response.yaml_block
            ELSE response.marker_run
    IN  IF cf_match # None THEN cf_match[1] ELSE _get_fallback_cf_template

\* Mutant: a miss is answered with the whole-pipeline fallback template.
_extract_cf_template_other(response) ==
    LET cf_match ==
            IF response.yaml_block # None THEN response.yaml_block
            ELSE IF response.bare_block # None THEN response.bare_block
            ELSE response.marker_run
    IN  IF cf_match # None THEN cf_match[1] ELSE _generate_fallback_template

_extract_cf_template(response) ==
    LET cf_match ==
            IF response.yaml_block # None THEN response.yaml_block
            ELSE IF response.bare_block # None THEN response.bare_block
            ELSE response.marker_run
    IN  IF cf_match # None THEN cf_match[1] ELSE _get_fallback_cf_template

\* base64: for each base64 pattern that matches, in order, whether its payload
\* decodes and is written; paths: for each file-path pattern that matches, in
\* order, whether the path exists and whether the copy succeeds.
DiagramResponses ==
    { [base64 |-> <<TRUE>>, paths |-> <<[exists |-> FALSE, copies |-> FALSE]>>] }

\* f"/diagram/architecture_{timestamp}.png"
DiagramUrl(timestamp) == "/diagram/architecture_" \o timestamp \o ".png"

_extract_and_save_diagram(response) ==
    IF \E i \in 1..Len(response.base64) : response.base64[i]
    THEN DiagramUrl(NowStamp)
    ELSE IF \E i \in 1..Len(response.paths) :
                response.paths[i].exists /\ response.paths[i].copies
    THEN DiagramUrl(NowStamp)
    ELSE _get_fallback_diagram_url

\* Whether the call writes a file at diagram_path: a payload is decoded and
\* written, or an existing file is copied there.
DiagramSaved(response) ==
    \/ \E i \in 1..Len(response.base64) : response.base64[i]
    \/ \E i \in 1..Len(response.paths) :
            response.paths[i].exists /\ response.paths[i].copies

\* Mutant: a file found on disk is preferred to an embedded image.
DiagramSource_copy_first(response) ==
    IF \E i \in 1..Len(response.paths) :
            response.paths[i].exists /\ response.paths[i].copies
    THEN "copy"
    ELSE IF \E i \in 1..Len(response.base64) : response.base64[i]
    THEN "base64"
    ELSE "none"

\* Where the content written at diagram_path comes from: the base64 loop
\* runs, and returns, before the path loop.
DiagramSource(response) ==
    IF \E i \in 1..Len(response.base64) : response.base64[i]
    THEN "base64"
    ELSE IF \E i \in 1..Len(response.paths) :
                response.paths[i].exists /\ response.paths[i].copies
    THEN "copy"
    ELSE "none"

\* Ticks of the clock in one second: datetime.now() is finer than the
\* seconds that "%Y%m%d_%H%M%S" keeps.
TicksPerSecond == 2

\* datetime.now().strftime("%Y%m%d_%H%M%S") at tick t of the clock
strftime(t) == "20250101_00000" \o IntToStr(t \div TicksPerSecond)

\* f"architecture_{timestamp}.png"
DiagramFilename(timestamp) == "architecture_" \o timestamp \o ".png"

\* The responses followed in the diagrams directory: an inline image, alone
\* or beside the path of a file that exists, a payload that does not decode
\* beside a file that is copied or one whose copy fails, a path that does
\* not exist, and no match at all.
StoreDiagramResponses ==
    { [base64 |-> <<TRUE>>, paths |-> << >>],
      [base64 |-> <<TRUE>>, paths |-> <<[exists |-> TRUE, copies |-> TRUE]>>],
      [base64 |-> <<FALSE>>, paths |-> <<[exists |-> TRUE, copies |-> FALSE]>>],
      [base64 |-> <<FALSE>>, paths |-> <<[exists |-> TRUE, copies |-> TRUE]>>],
      [base64 |-> << >>, paths |-> <<[exists |-> FALSE, copies |-> FALSE]>>],
      [base64 |-> << >>, paths |-> << >>] }

\* json_block: the content of the ```json fence, with whether json.loads and
\* the number conversions accept it and the object it yields; amounts: for each pricing pattern that
\* matches, in order, the float its group parses to (None: ValueError);
\* lines: the lines holding a "$" and a service name.
PricingJson ==
    [totalMonthlyCost |-> 42500,
     currency |-> "USD",
     region |-> "US East (N. Virginia)",
     breakdown |-> <<[resourceType |-> "AWS::EC2::NatGateway", quantity |-> 1,
                      unitCost |-> 32400, monthlyCost |-> 32400,
                      description |-> "NAT Gateway"]>>]

PricingResponses ==
    { [json_block |-> Some([parses |-> TRUE, obj |-> PricingJson]),
       amounts |-> <<Some(42500)>>,
       lines |-> << >>] }

BreakdownItem(item) ==
    [service |-> Get(item, "service", "Unknown"),
     cost |-> Money(Get(item, "monthlyCost", 0)),
     unit |-> "monthly",
     details |-> IF Get(item, "description", "") # ""
                 THEN Get(item, "description", "")
                 ELSE Get(item, "details", "")]

PricingFromJson(pricing_json) ==
    LET total_cost == Get(pricing_json, "totalMonthlyCost", 0)
        items == Get(pricing_json, "breakdown", << >>)
    IN  [totalMonthlyCost |-> Money(total_cost),
         currency |-> Get(pricing_json, "currency", "USD"),
         region |-> Get(pricing_json, "region", "us-east-1"),
         breakdown |-> [i \in 1..Len(items) |-> BreakdownItem(items[i])],
         annual |-> IF total_cost > 0 THEN total_cost * 12 ELSE 0]

PricingFromText(response) ==
    LET parsed == {i \in 1..Len(response.amounts) : response.amounts[i] # None}
        total_cost ==
            IF parsed = {} THEN 0
            ELSE response.amounts[CHOOSE i \in parsed : \A j \in parsed : i <= j][1]
        breakdown ==
            [i \in 1..Len(response.lines) |->
                [service |-> "AWS Service", cost |-> response.lines[i],
                 unit |-> "monthly", details |-> response.lines[i]]]
    IN  [totalMonthlyCost |-> Money(total_cost),
         currency |-> "USD",
         region |-> "us-east-1",
         breakdown |-> IF breakdown # << >> THEN breakdown
                       ELSE <<[service |-> "Various AWS Services",
                               cost |-> Money(total_cost),
                               unit |-> "monthly",
                               details |-> "Estimated monthly cost"]>>,
         annual |-> IF total_cost > 0 THEN total_cost * 12 ELSE 0]

\* Mutant: the pricing patterns are scanned before the json fence is tried.
_extract_pricing_data_text_first(response) ==
    IF response.amounts # << >> \/ response.json_block = None
    THEN PricingFromText(response)
    ELSE IF response.json_block[1].parses
         THEN PricingFromJson(response.json_block[1].obj)
         ELSE _get_fallback_pricing

_extract_pricing_data(response) ==
    IF response.json_block # None
    THEN IF response.json_block[1].parses
         THEN PricingFromJson(response.json_block[1].obj)
         ELSE _get_fallback_pricing
    ELSE PricingFromText(response)

(***************************************************************************)
(* The stages and the envelope of generate_architecture                    *)
(***************************************************************************)

\* What a stage's session (list_tools_sync, Agent(...), agent(prompt)) does:
\* it raises, or it returns one of the responses.
\* Mutant: a tool session whose call never comes back.
SessionOutcomes_hang(responses) == {}

SessionOutcomes(responses) ==
    {Raise("tool session error")} \cup {Return(r) : r \in responses}

_generate_cf_template(outcome) ==
    IF outcome.raised THEN Return(_get_fallback_cf_template)
    ELSE Return(_extract_cf_template(outcome.value))

\* Mutant: the diagram stage without its try.
_generate_diagram_unguarded(outcome) ==
    IF outcome.raised THEN Raise(outcome.value)
    ELSE Return(_extract_and_save_diagram(outcome.value))

_generate_diagram(outcome) ==
    IF outcome.raised THEN Return(_get_fallback_diagram_url)
    ELSE Return(_extract_and_save_diagram(outcome.value))

_calculate_pricing(outcome) ==
    IF outcome.raised THEN Return(_get_fallback_pricing)
    ELSE Return(_extract_pricing_data(outcome.value))

\* Mutant: the diagram is generated first, independently of the template.
StageOrder_DiagramFirst == <<"diagram", "template", "pricing">>

\* The order of the three calls in generate_architecture.
StageOrder == <<"template", "diagram", "pricing">>

\* Mutant: after the template stage, control is back at the template call.
CallLine_Retry == <<"A149", "A149", "A157">>

\* The line of each call and the line at which each stage waits for its agent.
CallLine == <<"A149", "A153", "A157">>
WaitLine == <<"A193", "A224", "A283">>

\* The argument each stage is called with.
\* Mutant: the pricing stage is given a template of its own, not the one
\* the template stage produced.
StageArg_own_template(f, stage) ==
    CASE stage = "template" -> f.requirements
      [] stage = "diagram" -> f.cf_template
      [] stage = "pricing" -> Some(_generate_fallback_template)

StageArg(f, stage) ==
    IF stage = "template" THEN f.requirements ELSE f.cf_template

\* Mutant: every template session answers for the first submission.
StageResponses_first(f, stage) ==
    CASE stage = "template" -> CfResponses("3-tier web app")
      [] stage = "diagram" -> DiagramResponses
      [] stage = "pricing" -> PricingResponses

StageResponses(f, stage) ==
    CASE stage = "template" -> CfResponses(f.requirements[1])
      [] stage = "diagram" -> DiagramResponses
      [] stage = "pricing" -> PricingResponses

RunStage(stage, outcome) ==
    CASE stage = "template" -> _generate_cf_template(outcome)
      [] stage = "diagram" -> _generate_diagram(outcome)
      [] stage = "pricing" -> _calculate_pricing(outcome)

\* The local variable each stage's value is bound to.
StoreStage(f, stage, v) ==
    CASE stage = "template" -> [f EXCEPT !.cf_template = Some(v)]
      [] stage = "diagram" -> [f EXCEPT !.diagram_url = Some(v)]
      [] stage = "pricing" -> [f EXCEPT !.pricing = Some(v)]

\* The dict generate_architecture returns from inside the with block.
generate_architecture_return(f) ==
    [cfTemplate |-> f.cf_template[1],
     diagramUrl |-> f.diagram_url[1],
     pricing |-> f.pricing[1]]

\* Mutant: generate_architecture without its try, so an exception leaves it.
generate_architecture_reraises(e) == Raise(e)

\* The handler of generate_architecture's try.
generate_architecture_except(e) == Return(_get_fallback_data)

(***************************************************************************)
(* State                                                                   *)
(***************************************************************************)
VARIABLES
    lifespan,      \* the startup hook: "pending", "complete", "failed", or "off"
                   \* (the application is served without lifespan events)
    aws_agent,     \* the module global of strands_agent.py: 0 (None) or the
                   \* index in agents of the instance it refers to
    agents,        \* the AWSArchitectureAgent instances constructed so far
    active_tasks,  \* the module global of server.py: task id -> record
    pc,            \* per task: the line its worker executes next
    frame,         \* per task: the local variables of its worker
    sync,          \* per synchronous request: its position, locals and response
    now,           \* the clock read by datetime.now(), in ticks
    diagrams,      \* the diagrams directory: file name -> whose diagram the
                   \* file holds and where it was taken from
    savers,        \* per generation: its call of _extract_and_save_diagram
    call           \* the call of a stage on a given session outcome

vars == <<lifespan, aws_agent, agents, active_tasks, pc, frame,
          sync, now, diagrams, savers, call>>

\* What the task tracker never touches.
auxVars == <<sync, now, diagrams, savers, call>>

\* The identifier of a request for a task that was never issued.
UnknownId == 0

NotInitialized == "Strands agent not initialized - MCP servers not connected"

\* One entry of the trace of the generate_architecture call in progress.
Event(ev, stage, arg) == [ev |-> ev, stage |-> stage, arg |-> arg]

InitFrame ==
    [requirements |-> None, agent |-> 0,
     cf_template |-> None, diagram_url |-> None, pricing |-> None,
     ret |-> None, trace |-> << >>,
     response_data |-> None, e |-> None]

\* The text of the n-th submission.
Requirements(n) ==
    IF n = 1 THEN "3-tier web app" ELSE "requirements " \o IntToStr(n)

\* uuid.uuid4(): an identifier no earlier call returned.
uuid4 == Cardinality(DOMAIN active_tasks) + 1

\* AWSArchitectureAgent.__init__
NewAgent == [_clients_initialized |-> FALSE]

\* A synchronous request not yet received.
InitSync == [pc |-> "idle", agent |-> 0, response |-> None]

\* A generation that has not reached its diagram stage.
InitSaver ==
    [pc |-> "idle", response |-> None, timestamp |-> None, diagram_url |-> None]

\* The module state after import.
ServerInit ==
    /\ lifespan \in {"pending", "off"}
    /\ aws_agent = 0
    /\ agents = << >>
    /\ active_tasks = << >>
    /\ pc = [t \in TaskIds |-> "idle"]
    /\ frame = [t \in TaskIds |-> InitFrame]
    /\ sync = [r \in SyncIds |-> InitSync]

\* An empty diagrams directory, no diagram stage entered.
StoreInit ==
    /\ now = 0
    /\ diagrams = << >>
    /\ savers = [g \in SaverIds |-> InitSaver]

Init ==
    /\ ServerInit
    /\ StoreInit
    /\ call = None

Serving == lifespan \in {"complete", "off"}

(***************************************************************************)
(* startup_event: get_aws_agent() and connect_to_mcp_servers().  It runs   *)
(* before any request is accepted; when it raises, none ever is.           *)
(***************************************************************************)
connect_to_mcp_servers(agent, connected) ==
    IF connected THEN [agent EXCEPT !._clients_initialized = TRUE] ELSE agent

StartupEvent ==
    /\ lifespan = "pending"
    /\ \E connected \in BOOLEAN :
        /\ agents' = <<connect_to_mcp_servers(NewAgent, connected)>>
        /\ lifespan' = IF connected THEN "complete" ELSE "failed"
    /\ aws_agent' = 1
    /\ UNCHANGED <<active_tasks, pc, frame>>
    /\ UNCHANGED auxVars

(***************************************************************************)
(* The request handlers                                                    *)
(***************************************************************************)
\* Mutant: a record created already in progress.
NewTask_preset ==
    [status |-> "generating_cf",
     progress |-> 10,
     message |-> "Starting architecture generation...",
     started_at |-> NowIso,
     completed_at |-> None,
     data |-> None,
     error |-> None]

NewTask ==
    [status |-> "started",
     progress |-> 0,
     message |-> "Starting architecture generation...",
     started_at |-> NowIso,
     completed_at |-> None,
     data |-> None,
     error |-> None]

TaskStartResponse(task_id) ==
    [code |-> 200,
     body |-> [task_id |-> task_id,
               message |-> "Architecture generation started. Use the task_id to check status."]]

start_generation(tasks, task_id) == (task_id :> NewTask) @@ tasks

StartGeneration ==
    /\ Serving
    /\ uuid4 \in TaskIds
    /\ LET task_id == uuid4 IN
        /\ active_tasks' = start_generation(active_tasks, task_id)
        /\ pc' = [pc EXCEPT ![task_id] = "L252"]
        /\ frame' = [frame EXCEPT ![task_id] =
                        [InitFrame EXCEPT !.requirements = Some(Requirements(task_id))]]
    /\ UNCHANGED <<lifespan, aws_agent, agents>>
    /\ UNCHANGED auxVars

\* Mutant: an unknown identifier is answered with an empty status.
get_generation_status_lenient(tasks, task_id) ==
    [code |-> 200,
     body |-> IF task_id \in DOMAIN tasks
              THEN [task_id |-> task_id,
                    status |-> tasks[task_id].status,
                    progress |-> tasks[task_id].progress,
                    data |-> tasks[task_id].data,
                    error |-> tasks[task_id].error]
              ELSE [task_id |-> task_id, status |-> "started", progress |-> 0,
                    data |-> None, error |-> None]]

get_generation_status(tasks, task_id) ==
    IF task_id \notin DOMAIN tasks
    THEN [code |-> 404, body |-> [detail |-> "Task not found"]]
    ELSE [code |-> 200,
          body |-> [task_id |-> task_id,
                    status |-> tasks[task_id].status,
                    progress |-> tasks[task_id].progress,
                    message |-> tasks[task_id].message,
                    started_at |-> tasks[task_id].started_at,
                    completed_at |-> tasks[task_id].completed_at,
                    data |-> tasks[task_id].data,
                    error |-> tasks[task_id].error]]

\* The handler only reads: whatever identifier it is called with, its
\* response is get_generation_status of the state it runs in.
GetGenerationStatus ==
    /\ Serving
    /\ \A task_id \in TaskIds \cup {UnknownId} :
        get_generation_status(active_tasks, task_id).code \in {200, 404}
    /\ UNCHANGED vars

(***************************************************************************)
(* run_generation_task, one statement at a time                            *)
(***************************************************************************)

\* The statements that write the task record, each as a function of the
\* record it finds.
L252(task) == [task EXCEPT !.status = "generating_cf"]
L253(task) == [task EXCEPT !.progress = 10]
L254(task) == [task EXCEPT !.message = "Generating CloudFormation template..."]
L263(task) == [task EXCEPT !.progress = 20]
L264(task) == [task EXCEPT !.message = "Creating AWS architecture..."]
\* Mutant: the success branch marks the task failed.
L271_failed(task) == [task EXCEPT !.status = "failed"]

\* Mutant: the result is stored without the status being set first.
L271_skipped(task) == task

L271(task) == [task EXCEPT !.status = "completed"]
L272(task) == [task EXCEPT !.progress = 100]
L273(task) == [task EXCEPT !.message = "Architecture generation complete!"]
L274(task, response_data) == [task EXCEPT !.data = Some(response_data)]
L275(task) == [task EXCEPT !.completed_at = Some(NowIso)]
L281(task) == [task EXCEPT !.status = "failed"]
L282(task) == [task EXCEPT !.progress = 0]
L283(task) == [task EXCEPT !.message = "Generation failed"]
L284(task, e) == [task EXCEPT !.error = Some(e)]
L285(task) == [task EXCEPT !.completed_at = Some(NowIso)]

\* The worker of task t moves from one line to another.
Goto(t, from, to) ==
    /\ pc[t] = from
    /\ pc' = [pc EXCEPT ![t] = to]

\* The worker of task t executes a statement that writes its record.
WriteRecord(t, from, to, task) ==
    /\ Goto(t, from, to)
    /\ active_tasks' = [active_tasks EXCEPT ![t] = task]
    /\ UNCHANGED <<lifespan, aws_agent, agents, frame>>
    /\ UNCHANGED auxVars

\* The worker of task t executes a statement that writes its locals.
WriteFrame(t, from, to, f) ==
    /\ Goto(t, from, to)
    /\ frame' = [frame EXCEPT ![t] = f]
    /\ UNCHANGED <<lifespan, aws_agent, agents, active_tasks>>
    /\ UNCHANGED auxVars

\* The worker of task t executes its last statement and returns: its locals
\* are gone.
Finish(t, from, task) ==
    /\ Goto(t, from, "done")
    /\ active_tasks' = [active_tasks EXCEPT ![t] = task]
    /\ frame' = [frame EXCEPT ![t] = InitFrame]
    /\ UNCHANGED <<lifespan, aws_agent, agents>>
    /\ UNCHANGED auxVars

SetStatusGeneratingCf(t) == WriteRecord(t, "L252", "L253", L252(active_tasks[t]))
SetProgress10(t) == WriteRecord(t, "L253", "L254", L253(active_tasks[t]))
SetMessageGeneratingCf(t) == WriteRecord(t, "L254", "L256", L254(active_tasks[t]))

\* get_aws_agent, line 809: the test of the global
GetAgentTest(t) ==
    /\ Goto(t, "L256", IF aws_agent = 0 THEN "A810" ELSE "A811")
    /\ UNCHANGED <<lifespan, aws_agent, agents, active_tasks, frame>>
    /\ UNCHANGED auxVars

\* get_aws_agent, line 810: a new instance is bound to the global
GetAgentConstruct(t) ==
    /\ Goto(t, "A810", "A811")
    /\ agents' = Append(agents, NewAgent)
    /\ aws_agent' = Len(agents) + 1
    /\ UNCHANGED <<lifespan, active_tasks, frame>>
    /\ UNCHANGED auxVars

\* get_aws_agent, line 811: the global is returned and bound to agent
GetAgentReturn(t) ==
    WriteFrame(t, "A811", "L259", [frame[t] EXCEPT !.agent = aws_agent])

\* Mutant: the handlers go on whatever the flag says.
ClientsInitialized_unchecked(agent) == TRUE

\* The test both handlers make of the agent they obtained.
ClientsInitialized(agent) == agent._clients_initialized

\* line 259: raise unless the clients are initialized
CheckInitialized(t) ==
    /\ pc[t] = "L259"
    /\ IF ClientsInitialized(agents[frame[t].agent])
       THEN WriteFrame(t, "L259", "L263", frame[t])
       ELSE WriteFrame(t, "L259", "L281", [frame[t] EXCEPT !.e = Some(NotInitialized)])

SetProgress20(t) == WriteRecord(t, "L263", "L264", L263(active_tasks[t]))
SetMessageCreating(t) == WriteRecord(t, "L264", "L268", L264(active_tasks[t]))

\* line 268 calls generate_architecture; line 142 opens the three sessions.
OpenSessions(t) ==
    \E opened \in BOOLEAN :
        IF opened
        THEN WriteFrame(t, "L268", CallLine[1],
                [frame[t] EXCEPT !.trace = Append(@, Event("start", "sessions", None))])
        ELSE WriteFrame(t, "L268", "L268r",
                [frame[t] EXCEPT
                    !.trace = Append(@, Event("raise", "sessions", None)),
                    !.ret = Some(generate_architecture_except("session error"))])

\* A stage is entered: its session is called with the stage's argument.
StartStage(t, i) ==
    WriteFrame(t, CallLine[i], WaitLine[i],
        [frame[t] EXCEPT !.trace =
            Append(@, Event("start", StageOrder[i], StageArg(frame[t], StageOrder[i])))])

\* A stage ends: its session raised or returned, and the stage's value is
\* bound.  An exception leaving the stage reaches generate_architecture's
\* handler.
FinishStage(t, i) ==
    /\ pc[t] = WaitLine[i]
    /\ \E outcome \in SessionOutcomes(StageResponses(frame[t], StageOrder[i])) :
        LET stage == StageOrder[i]
            r == RunStage(stage, outcome)
            ev == Event(IF outcome.raised THEN "raise" ELSE "return", stage, None)
            f == [frame[t] EXCEPT !.trace = Append(@, ev)]
        IN  IF r.raised
            THEN WriteFrame(t, WaitLine[i], "L268r",
                    [f EXCEPT !.ret = Some(generate_architecture_except(r.value))])
            ELSE WriteFrame(t, WaitLine[i],
                    IF i < Len(StageOrder) THEN CallLine[i + 1] ELSE "A161",
                    StoreStage(f, stage, r.value))

\* line 161: the dict is built, the with block is left (the sessions close)
\* and the call returns; an exception while closing reaches the handler.
ReturnResult(t) ==
    \E closed \in BOOLEAN :
        WriteFrame(t, "A161", "L268r",
            [frame[t] EXCEPT
                !.trace = Append(@, Event(IF closed THEN "return" ELSE "raise",
                                          "sessions", None)),
                !.ret = Some(IF closed
                             THEN Return(generate_architecture_return(frame[t]))
                             ELSE generate_architecture_except("session error"))])

\* line 268: the call is over; its value is bound to response_data, or its
\* exception reaches the handler at line 279.
BindResponseData(t) ==
    /\ pc[t] = "L268r"
    /\ LET out == frame[t].ret[1]
           f == [frame[t] EXCEPT !.cf_template = None, !.diagram_url = None,
                                 !.pricing = None, !.ret = None, !.trace = << >>]
       IN  IF out.raised
           THEN WriteFrame(t, "L268r", "L281", [f EXCEPT !.e = Some(out.value)])
           ELSE WriteFrame(t, "L268r", "L271", [f EXCEPT !.response_data = Some(out.value)])

SetStatusCompleted(t) == WriteRecord(t, "L271", "L272", L271(active_tasks[t]))
SetProgress100(t) == WriteRecord(t, "L272", "L273", L272(active_tasks[t]))
SetMessageComplete(t) == WriteRecord(t, "L273", "L274", L273(active_tasks[t]))
SetData(t) ==
    WriteRecord(t, "L274", "L275", L274(active_tasks[t], frame[t].response_data[1]))
SetCompletedAt(t) == Finish(t, "L275", L275(active_tasks[t]))

SetStatusFailed(t) == WriteRecord(t, "L281", "L282", L281(active_tasks[t]))
SetProgress0(t) == WriteRecord(t, "L282", "L283", L282(active_tasks[t]))
SetMessageFailed(t) == WriteRecord(t, "L283", "L284", L283(active_tasks[t]))
SetError(t) == WriteRecord(t, "L284", "L285", L284(active_tasks[t], frame[t].e[1]))
SetFailedAt(t) == Finish(t, "L285", L285(active_tasks[t]))

Worker(t) ==
    \/ SetStatusGeneratingCf(t)
    \/ SetProgress10(t)
    \/ SetMessageGeneratingCf(t)
    \/ GetAgentTest(t)
    \/ GetAgentConstruct(t)
    \/ GetAgentReturn(t)
    \/ CheckInitialized(t)
    \/ SetProgress20(t)
    \/ SetMessageCreating(t)
    \/ OpenSessions(t)
    \/ \E i \in 1..Len(StageOrder) : StartStage(t, i)
    \/ \E i \in 1..Len(StageOrder) : FinishStage(t, i)
    \/ ReturnResult(t)
    \/ BindResponseData(t)
    \/ SetStatusCompleted(t)
    \/ SetProgress100(t)
    \/ SetMessageComplete(t)
    \/ SetData(t)
    \/ SetCompletedAt(t)
    \/ SetStatusFailed(t)
    \/ SetProgress0(t)
    \/ SetMessageFailed(t)
    \/ SetError(t)
    \/ SetFailedAt(t)

Next ==
    \/ StartupEvent
    \/ StartGeneration
    \/ GetGenerationStatus
    \/ \E t \in TaskIds : Worker(t)

Spec == Init /\ [][Next]_vars

(***************************************************************************)
(* The synchronous endpoint, POST /generate                                *)
(*                                                                         *)
(* The handler obtains the agent and tests it on the event loop, then      *)
(* awaits generate_architecture on an executor thread.  The call is taken  *)
(* as one step: its value is a function of what its sessions did.          *)
(***************************************************************************)

\* What the sessions of one generate_architecture call do.
SessionRuns(requirements) ==
    [opened : BOOLEAN,
     template : SessionOutcomes(CfResponses(requirements)),
     diagram : SessionOutcomes(DiagramResponses),
     pricing : SessionOutcomes(PricingResponses),
     closed : BOOLEAN]

generate_architecture(run) ==
    LET cf_template == _generate_cf_template(run.template)
        diagram_url == _generate_diagram(run.diagram)
        pricing == _calculate_pricing(run.pricing)
    IN  IF ~run.opened THEN generate_architecture_except("session error")
        ELSE IF cf_template.raised THEN generate_architecture_except(cf_template.value)
        ELSE IF diagram_url.raised THEN generate_architecture_except(diagram_url.value)
        ELSE IF pricing.raised THEN generate_architecture_except(pricing.value)
        ELSE IF ~run.closed THEN generate_architecture_except("session error")
        ELSE Return([cfTemplate |-> cf_template.value,
                     diagramUrl |-> diagram_url.value,
                     pricing |-> pricing.value])

\* The text of the r-th synchronous request.
SyncRequirements(r) == "synchronous requirements " \o IntToStr(r)

GenerateResponse(data) ==
    [code |-> 200,
     body |-> [success |-> TRUE, data |-> data,
               message |-> "Generated real AWS architecture"]]

\* The HTTPException of the handler's except branch.
GenerateFailure(e) ==
    [code |-> 500,
     body |-> [detail |-> "Failed to generate architecture: " \o e
                  \o ". Ensure MCP servers are running and accessible."]]

SyncStep(r, from, to, response) ==
    /\ sync[r].pc = from
    /\ sync' = [sync EXCEPT ![r].pc = to, ![r].response = response]
    /\ UNCHANGED <<lifespan, aws_agent, agents, active_tasks, pc, frame>>
    /\ UNCHANGED <<now, diagrams, savers, call>>

\* line 350 calls get_aws_agent; line 809 tests the global
SyncGetAgentTest(r) ==
    /\ Serving
    /\ SyncStep(r, "idle", IF aws_agent = 0 THEN "A810" ELSE "A811", None)

\* get_aws_agent, line 810
SyncGetAgentConstruct(r) ==
    /\ sync[r].pc = "A810"
    /\ sync' = [sync EXCEPT ![r].pc = "A811"]
    /\ agents' = Append(agents, NewAgent)
    /\ aws_agent' = Len(agents) + 1
    /\ UNCHANGED <<lifespan, active_tasks, pc, frame>>
    /\ UNCHANGED <<now, diagrams, savers, call>>

\* get_aws_agent, line 811
SyncGetAgentReturn(r) ==
    /\ sync[r].pc = "A811"
    /\ sync' = [sync EXCEPT ![r].pc = "L353", ![r].agent = aws_agent]
    /\ UNCHANGED <<lifespan, aws_agent, agents, active_tasks, pc, frame>>
    /\ UNCHANGED <<now, diagrams, savers, call>>

\* lines 353-354: raise unless the clients are initialized; the exception is
\* answered by the except branch at line 373.
SyncCheckInitialized(r) ==
    /\ sync[r].pc = "L353"
    /\ IF ClientsInitialized(agents[sync[r].agent])
       THEN SyncStep(r, "L353", "L361", None)
       ELSE SyncStep(r, "L353", "done", Some(GenerateFailure(NotInitialized)))

\* lines 360-370: the executor runs generate_architecture and the handler
\* answers with its value, or with the exception it raised.
SyncRunInExecutor(r) ==
    \E out \in {generate_architecture(run) : run \in SessionRuns(SyncRequirements(r))} :
        SyncStep(r, "L361", "done",
                 Some(IF out.raised THEN GenerateFailure(out.value)
                      ELSE GenerateResponse(out.value)))

SyncRequest(r) ==
    \/ SyncGetAgentTest(r)
    \/ SyncGetAgentConstruct(r)
    \/ SyncGetAgentReturn(r)
    \/ SyncCheckInitialized(r)
    \/ SyncRunInExecutor(r)

\* A submission, while fewer than MaxSyncTasks were made.
SyncStartGeneration ==
    /\ Cardinality(DOMAIN active_tasks) < MaxSyncTasks
    /\ StartGeneration

SyncNext ==
    \/ StartupEvent
    \/ SyncStartGeneration
    \/ \E t \in TaskIds : Worker(t)
    \/ \E r \in SyncIds : SyncRequest(r)

SyncSpec == Init /\ [][SyncNext]_vars

(***************************************************************************)
(* The diagrams directory                                                  *)
(*                                                                         *)
(* Every generation, of a task or of a synchronous request, runs           *)
(* _extract_and_save_diagram on its own thread: it reads the clock, builds *)
(* the file name from it and later writes the file.                        *)
(***************************************************************************)
serverVars == <<lifespan, aws_agent, agents, active_tasks, pc, frame, sync>>

SaverStep(g, from, saver) ==
    /\ savers[g].pc = from
    /\ savers' = [savers EXCEPT ![g] = saver]
    /\ UNCHANGED serverVars
    /\ UNCHANGED call

\* The clock advances.
Tick ==
    /\ now < MaxClock
    /\ now' = now + 1
    /\ UNCHANGED <<diagrams, savers, call>>
    /\ UNCHANGED serverVars

\* line 232: a generation's diagram session has returned a response.
EnterExtractAndSave(g) ==
    /\ \E response \in StoreDiagramResponses :
        SaverStep(g, "idle", [savers[g] EXCEPT !.pc = "A393",
                                               !.response = Some(response)])
    /\ UNCHANGED <<now, diagrams>>

\* lines 393-395: timestamp, diagram_filename and diagram_path
ReadClock(g) ==
    /\ SaverStep(g, "A393", [savers[g] EXCEPT !.pc = "A401",
                                             !.timestamp = Some(strftime(now))])
    /\ UNCHANGED <<now, diagrams>>

\* lines 397-447: the file is written and its url returned, or nothing is
\* written and the placeholder is returned.
SaveDiagram(g) ==
    /\ savers[g].pc = "A401"
    /\ IF DiagramSaved(savers[g].response[1])
       THEN /\ diagrams' =
                (DiagramFilename(savers[g].timestamp[1]) :>
                    [writer |-> g, source |-> DiagramSource(savers[g].response[1])])
                @@ diagrams
            /\ SaverStep(g, "A401",
                    [savers[g] EXCEPT !.pc = "done",
                        !.diagram_url = Some(DiagramUrl(savers[g].timestamp[1]))])
       ELSE /\ diagrams' = diagrams
            /\ SaverStep(g, "A401",
                    [savers[g] EXCEPT !.pc = "done",
                        !.diagram_url = Some(_get_fallback_diagram_url)])
    /\ UNCHANGED now

StoreNext ==
    \/ Tick
    \/ \E g \in SaverIds : EnterExtractAndSave(g)
    \/ \E g \in SaverIds : ReadClock(g)
    \/ \E g \in SaverIds : SaveDiagram(g)

StoreSpec == Init /\ [][StoreNext]_vars

(***************************************************************************)
(* The template and pricing stages on their own                            *)
(*                                                                         *)
(* A stage is applied to one outcome of its session: an exception, or a    *)
(* response drawn from the texts below.                                    *)
(***************************************************************************)

\* A fence with nothing between its marks: group 1 is the empty text.
EmptyText == [version |-> "", description |-> "", resources |-> << >>]

\* A template in a yaml fence, in an untagged fence, unfenced, prose without
\* any template, an empty yaml fence, and a yaml fence followed by an
\* untagged fence and a bare marker that hold other templates.
ExtractCfResponses ==
    LET t == AgentTemplate("3-tier web app")
        h == AgentTemplateHead("3-tier web app")
    IN  { [yaml_block |-> Some(t), bare_block |-> None, marker_run |-> Some(h)],
          [yaml_block |-> None, bare_block |-> Some(t), marker_run |-> Some(h)],
          [yaml_block |-> None, bare_block |-> None, marker_run |-> Some(h)],
          [yaml_block |-> None, bare_block |-> None, marker_run |-> None],
          [yaml_block |-> Some(EmptyText), bare_block |-> None, marker_run |-> None],
          [yaml_block |-> Some(t),
           bare_block |-> Some(AgentTemplate("a later block")),
           marker_run |-> Some(AgentTemplateHead("a bare marker"))] }

\* Amounts a response can state, in thousandths of a dollar.
Amounts == {0, 4, 1250, 1254, 9996, 42500}

\* The JSON objects followed: empty, a total only, a total with one item.
PricingObjects ==
    {<< >>}
    \cup {[totalMonthlyCost |-> a] : a \in Amounts}
    \cup {[totalMonthlyCost |-> a, currency |-> "USD", region |-> "eu-west-1",
           breakdown |-> <<[service |-> "EC2", monthlyCost |-> a,
                            description |-> "t3.micro"]>>] : a \in Amounts}

\* Responses with a json fence (which json.loads and the conversions accept
\* or not), alone or beside text that states an amount, and responses
\* without one: the pricing patterns match nowhere,
\* once, on a group that does not parse, or on such a group and then on one
\* that parses; zero to two lines hold a "$" and a service name.
ExtractPricingResponses ==
    {[json_block |-> Some([parses |-> FALSE, obj |-> << >>]),
      amounts |-> << >>, lines |-> << >>]}
    \cup {[json_block |-> Some([parses |-> TRUE, obj |-> o]),
           amounts |-> << >>, lines |-> << >>] : o \in PricingObjects}
    \cup {[json_block |-> Some([parses |-> p, obj |-> IF p THEN o ELSE << >>]),
           amounts |-> <<Some(9996)>>, lines |-> <<"EC2: $10.00">>] :
            p \in BOOLEAN, o \in PricingObjects}
    \cup {[json_block |-> None, amounts |-> m, lines |-> l] :
            m \in {<< >>, <<None>>} \cup {<<Some(a)>> : a \in Amounts}
                    \cup {<<None, Some(a)>> : a \in Amounts},
            l \in {<< >>, <<"EC2: $10.00">>, <<"EC2: $10.00", "NAT: $32.40">>}}

\* The calls followed: a stage and the outcome of its session.
StageCalls ==
    {[fn |-> "_generate_cf_template", outcome |-> o, result |-> None] :
        o \in SessionOutcomes(ExtractCfResponses)}
    \cup {[fn |-> "_calculate_pricing", outcome |-> o, result |-> None] :
        o \in SessionOutcomes(ExtractPricingResponses)}

ExtractInit ==
    /\ ServerInit
    /\ StoreInit
    /\ call \in StageCalls

GenerateCfTemplate ==
    /\ call.fn = "_generate_cf_template"
    /\ call.result = None
    /\ call' = [call EXCEPT !.result = Some(_generate_cf_template(call.outcome))]
    /\ UNCHANGED <<lifespan, aws_agent, agents, active_tasks, pc, frame>>
    /\ UNCHANGED <<sync, now, diagrams, savers>>

CalculatePricing ==
    /\ call.fn = "_calculate_pricing"
    /\ call.result = None
    /\ call' = [call EXCEPT !.result = Some(_calculate_pricing(call.outcome))]
    /\ UNCHANGED <<lifespan, aws_agent, agents, active_tasks, pc, frame>>
    /\ UNCHANGED <<sync, now, diagrams, savers>>

ExtractNext == GenerateCfTemplate \/ CalculatePricing

ExtractSpec == ExtractInit /\ [][ExtractNext]_vars

(***************************************************************************)
(* Properties                                                              *)
(***************************************************************************)
\* The task tracker with every background worker scheduled: the threadpool
\* runs each task it was handed, and a tool-session call returns or raises.
FairSpec == Init /\ [][Next]_vars /\ \A t \in TaskIds : WF_vars(Worker(t))

Issued == DOMAIN active_tasks

Terminal(task) == task.status \in {"completed", "failed"}

\* What a poll of an issued task shows.
Polled(tasks, t) == get_generation_status(tasks, t).body

\* The call of generate_architecture made for task t is over.
CallOver(t) == pc[t] = "L268r"

RaisedIn(trace, stage) ==
    \E k \in 1..Len(trace) : trace[k].ev = "raise" /\ trace[k].stage = stage

StartedIn(trace, stage) ==
    \E k \in 1..Len(trace) : trace[k].ev = "start" /\ trace[k].stage = stage

StageNames == {"template", "diagram", "pricing"}

\* C1: once a task record's status is 'completed' or 'failed', no later step
\* of any execution changes any field of that record.
C1_ImmutableOnceTerminal ==
    [][\A t \in Issued :
          Terminal(active_tasks[t]) => active_tasks'[t] = active_tasks[t]]_vars

\* C2: the progress values a poller can observe for a task never decrease and
\* stay within 0..100, also in executions that end in 'failed'.
C2_ProgressNonDecreasing ==
    [][\A t \in Issued :
          /\ Polled(active_tasks', t).progress >= Polled(active_tasks, t).progress
          /\ Polled(active_tasks', t).progress \in 0..100]_vars

\* C3: generate_architecture never raises: whatever fails inside it, the call
\* ends by returning a value.
C3_GenerateNeverRaises ==
    \A t \in TaskIds :
        /\ frame[t].ret # None => ~frame[t].ret[1].raised
        /\ CallOver(t) => frame[t].ret # None

\* C3 witness: a call in which every stage's session raised and closing the
\* sessions raised too has returned a value.
C3_Witness ==
    \E t \in TaskIds :
        /\ CallOver(t)
        /\ \A s \in StageNames \cup {"sessions"} : RaisedIn(frame[t].trace, s)
        /\ frame[t].ret # None
        /\ ~frame[t].ret[1].raised

\* The value a stage's local variable holds.
Local(f, stage) ==
    CASE stage = "template" -> f.cf_template
      [] stage = "diagram" -> f.diagram_url
      [] stage = "pricing" -> f.pricing

StageFallback(stage) ==
    CASE stage = "template" -> _get_fallback_cf_template
      [] stage = "diagram" -> _get_fallback_diagram_url
      [] stage = "pricing" -> _get_fallback_pricing

\* The values a stage extracts from the responses its session can return.
Extracted(f, stage) ==
    CASE stage = "template" ->
            {_extract_cf_template(r) : r \in CfResponses(f.requirements[1])}
      [] stage = "diagram" -> {_extract_and_save_diagram(r) : r \in DiagramResponses}
      [] stage = "pricing" -> {_extract_pricing_data(r) : r \in PricingResponses}

\* The sessions were opened and closed without an exception.
SessionsFine(trace) ==
    StartedIn(trace, "sessions") /\ ~RaisedIn(trace, "sessions")

\* C4: a stage whose session raises yields its own fallback value; the other
\* stages still run, and the value each stage yielded is the one returned.
C4_StageFailureIsLocal ==
    \A t \in TaskIds :
        CallOver(t) /\ SessionsFine(frame[t].trace) =>
            /\ \A s \in StageNames :
                /\ StartedIn(frame[t].trace, s)
                /\ Local(frame[t], s) # None
                /\ IF RaisedIn(frame[t].trace, s)
                   THEN Local(frame[t], s)[1] = StageFallback(s)
                   ELSE Local(frame[t], s)[1] \in Extracted(frame[t], s)
            /\ frame[t].ret =
                 Some(Return([cfTemplate |-> frame[t].cf_template[1],
                              diagramUrl |-> frame[t].diagram_url[1],
                              pricing |-> frame[t].pricing[1]]))

\* C4 witness: only the diagram session raised; the result holds the
\* placeholder diagram beside the extracted template and the extracted price.
C4_Witness ==
    \E t \in TaskIds :
        /\ CallOver(t)
        /\ SessionsFine(frame[t].trace)
        /\ RaisedIn(frame[t].trace, "diagram")
        /\ ~RaisedIn(frame[t].trace, "template")
        /\ ~RaisedIn(frame[t].trace, "pricing")
        /\ frame[t].ret[1].value.diagramUrl = "/diagram/sample.png"
        /\ frame[t].ret[1].value.cfTemplate = AgentTemplate(frame[t].requirements[1])
        /\ frame[t].ret[1].value.pricing.totalMonthlyCost = "$42.50"

\* C5: every result generate_architecture returns has a template field, a
\* diagram reference field and a pricing record with totalMonthlyCost,
\* currency, region and breakdown.
C5_ResultShape ==
    \A t \in TaskIds :
        (frame[t].ret # None /\ ~frame[t].ret[1].raised) =>
            /\ DOMAIN frame[t].ret[1].value = {"cfTemplate", "diagramUrl", "pricing"}
            /\ {"totalMonthlyCost", "currency", "region", "breakdown"}
                    \subseteq DOMAIN frame[t].ret[1].value.pricing

\* Every tool session of the call failed: the sessions could not be opened,
\* or each stage's session raised.
AllSessionsFailed(trace) ==
    \/ trace = <<Event("raise", "sessions", None)>>
    \/ \A s \in StageNames : RaisedIn(trace, s)

\* C6: when all three tool sessions fail, the result has the fallback
\* template, whose only resource is a VPC, a total monthly cost of 0.00 and
\* the placeholder diagram.
C6_AllSessionsFail ==
    \A t \in TaskIds :
        (CallOver(t) /\ AllSessionsFailed(frame[t].trace)) =>
            LET v == frame[t].ret[1].value IN
            /\ v.cfTemplate = _get_fallback_cf_template
            /\ \A k \in 1..Len(v.cfTemplate.resources) :
                    v.cfTemplate.resources[k] = "AWS::EC2::VPC"
            /\ "totalMonthlyCost" \in DOMAIN v.pricing
            /\ v.pricing.totalMonthlyCost = "$0.00"
            /\ v.diagramUrl = "/diagram/sample.png"

IsStageEvent(e) == e.stage \in StageNames

StageEvents(trace) == SelectSeq(trace, IsStageEvent)

\* C7: within one call the stages run in the order template, diagram,
\* pricing, each ending before the next starts.
C7_StagesInOrder ==
    \A t \in TaskIds :
        LET ev == StageEvents(frame[t].trace)
            stage == <<"template", "template", "diagram", "diagram", "pricing", "pricing">>
        IN  /\ Len(ev) <= Len(stage)
            /\ \A k \in 1..Len(ev) :
                /\ ev[k].stage = stage[k]
                /\ IF k % 2 = 1 THEN ev[k].ev = "start"
                   ELSE ev[k].ev \in {"return", "raise"}

\* C7 witness: a call whose three stages have all started and ended.
C7_Witness ==
    \E t \in TaskIds : pc[t] = "A161" /\ Len(StageEvents(frame[t].trace)) = 6

\* C8: a record with a result has status 'completed', a record with an error
\* has status 'failed', and no record has both.
C8_ResultAndErrorMatchStatus ==
    \A t \in Issued :
        /\ active_tasks[t].data # None => active_tasks[t].status = "completed"
        /\ active_tasks[t].error # None => active_tasks[t].status = "failed"
        /\ ~(active_tasks[t].data # None /\ active_tasks[t].error # None)

\* C8 witness: a record holds a result.
C8_Witness ==
    \E t \in Issued :
        active_tasks[t].data # None /\ active_tasks[t].status = "completed"

\* C9: completed_at is null while the status is not terminal, is assigned in
\* the step in which the status becomes terminal, and never changes after.
C9_CompletedAtWithTerminalStatus ==
    [][\A t \in Issued :
          /\ ~Terminal(active_tasks'[t]) => active_tasks'[t].completed_at = None
          /\ (~Terminal(active_tasks[t]) /\ Terminal(active_tasks'[t]))
                => active_tasks'[t].completed_at # None
          /\ active_tasks[t].completed_at # None
                => active_tasks'[t].completed_at = active_tasks[t].completed_at]_vars

\* C10: a submission adds exactly one record, under an identifier not in the
\* map, with status 'started', progress 0 and no result, error or
\* completed_at; it returns before the worker of the new task has run, and
\* it leaves every other record and worker as they were.
C10_StartCreatesOneFreshTask ==
    [][Issued' # Issued =>
          \E id \in Issued' \ Issued :
              /\ Issued' = Issued \cup {id}
              /\ active_tasks'[id].status = "started"
              /\ active_tasks'[id].progress = 0
              /\ active_tasks'[id].data = None
              /\ active_tasks'[id].error = None
              /\ active_tasks'[id].completed_at = None
              /\ pc'[id] = "L252"
              /\ frame'[id].trace = << >>
              /\ TaskStartResponse(id).body.task_id = id
              /\ \A t \in Issued : active_tasks'[t] = active_tasks[t]
              /\ \A t \in TaskIds \ {id} : pc'[t] = pc[t] /\ frame'[t] = frame[t]]_vars

\* C10 witness: a task was submitted while the worker of an earlier one was
\* in a stage.
C10_Witness ==
    \E t, u \in Issued :
        /\ pc[t] \in {"A193", "A224", "A283"}
        /\ pc[u] = "L252"
        /\ active_tasks[u] = NewTask

\* C11: a poll with an identifier that was never issued is answered 404; a
\* poll with an issued identifier is answered with that record's current
\* status, progress, result and error.  The handler's step leaves every
\* variable, the task map included, as it was.
C11_PollReportsOrNotFound ==
    \A task_id \in TaskIds \cup {UnknownId} :
        LET r == get_generation_status(active_tasks, task_id) IN
        IF task_id \in Issued
        THEN /\ r.code = 200
             /\ r.body.task_id = task_id
             /\ r.body.status = active_tasks[task_id].status
             /\ r.body.progress = active_tasks[task_id].progress
             /\ r.body.data = active_tasks[task_id].data
             /\ r.body.error = active_tasks[task_id].error
        ELSE r.code = 404

\* C11 witness: one task has its result while another identifier is not
\* issued yet; the first is reported with the result, the second not found.
C11_Witness ==
    \E t \in Issued, u \in TaskIds \ Issued :
        /\ active_tasks[t].data # None
        /\ get_generation_status(active_tasks, t).body.data = active_tasks[t].data
        /\ get_generation_status(active_tasks, u).code = 404
        /\ get_generation_status(active_tasks, UnknownId).code = 404

\* The agent a handler obtained has not had its clients initialized.
Uninitialized(agent) == agent # 0 /\ ~agents[agent]._clients_initialized

\* C12: with an agent whose clients are not initialized no stage is
\* entered; the task ends 'failed' with the not-initialized message as its
\* error, and the synchronous request is answered with an error carrying
\* that message, not with a result.
C12_NotInitializedIsSurfaced ==
    /\ \A t \in TaskIds :
        Uninitialized(frame[t].agent) =>
            /\ frame[t].trace = << >>
            /\ pc[t] \in {"L259", "L281", "L282", "L283", "L284", "L285"}
            /\ pc[t] # "L259" => frame[t].e = Some(NotInitialized)
    /\ \A t \in Issued :
        (pc[t] = "done" /\ \A a \in 1..Len(agents) : Uninitialized(a)) =>
            /\ active_tasks[t].status = "failed"
            /\ active_tasks[t].error = Some(NotInitialized)
            /\ active_tasks[t].data = None
    /\ \A r \in SyncIds :
        Uninitialized(sync[r].agent) =>
            /\ sync[r].pc \in {"L353", "done"}
            /\ sync[r].pc = "done" =>
                    sync[r].response = Some(GenerateFailure(NotInitialized))

\* C12 witness: a task and a synchronous request have both ended against an
\* agent that was not initialized.
C12_Witness ==
    \E t \in Issued, r \in SyncIds :
        /\ pc[t] = "done"
        /\ active_tasks[t].status = "failed"
        /\ active_tasks[t].error = Some(NotInitialized)
        /\ Uninitialized(sync[r].agent)
        /\ sync[r].pc = "done"
        /\ sync[r].response[1].code = 500

\* C13: a worker is in the failure branch only with the not-initialized
\* exception of an agent that is not initialized; a task whose worker has
\* ended while the agent is initialized is 'completed' with a result,
\* whatever its sessions did.
C13_FailedOnlyWhenNotInitialized ==
    /\ \A t \in TaskIds :
        pc[t] \in {"L281", "L282", "L283", "L284", "L285"} =>
            /\ frame[t].e = Some(NotInitialized)
            /\ Uninitialized(frame[t].agent)
    /\ \A t \in Issued :
        /\ active_tasks[t].error # None => active_tasks[t].error = Some(NotInitialized)
        /\ (pc[t] = "done" /\ aws_agent # 0 /\ ~Uninitialized(aws_agent)) =>
                /\ active_tasks[t].status = "completed"
                /\ active_tasks[t].data # None

\* C13 witness: the sessions of a task could not be opened and one stage of
\* another raised, the agent being initialized; both ended 'completed'.
C13_Witness ==
    \E t, u \in Issued :
        /\ ~Uninitialized(aws_agent)
        /\ pc[t] = "done" /\ pc[u] = "done"
        /\ active_tasks[t].status = "completed"
        /\ active_tasks[t].data = Some(_get_fallback_data)
        /\ active_tasks[u].status = "completed"
        /\ active_tasks[u].data # None
        /\ active_tasks[u].data # Some(_get_fallback_data)
        /\ active_tasks[u].data[1].diagramUrl = _get_fallback_diagram_url

\* C14: every record whose status is terminal is either 'completed' with
\* progress 100 and a result, or 'failed' with progress 0 and a non-empty
\* error message.
C14_TerminalShapes ==
    \A t \in Issued :
        Terminal(active_tasks[t]) =>
            \/ /\ active_tasks[t].status = "completed"
               /\ active_tasks[t].progress = 100
               /\ active_tasks[t].data # None
            \/ /\ active_tasks[t].status = "failed"
               /\ active_tasks[t].progress = 0
               /\ active_tasks[t].error # None
               /\ active_tasks[t].error # Some("")

\* The values generate_architecture can return for a requirements text.
ResultsFor(requirements) ==
    {generate_architecture(run).value : run \in SessionRuns(requirements)}

\* C15: a task's record changes only in a step of that task's own worker,
\* which changes no other record; the template stage of a task is called
\* with that task's requirements, and the result stored in a record is a
\* value of generate_architecture for that task's requirements.
C15_WorkerWritesOwnRecord ==
    [][\A t \in Issued :
          /\ active_tasks'[t] # active_tasks[t] =>
                /\ pc'[t] # pc[t]
                /\ \A u \in Issued \ {t} : active_tasks'[u] = active_tasks[u]
          /\ \A k \in 1..Len(frame[t].trace) :
                (frame[t].trace[k].stage = "template" /\ frame[t].trace[k].ev = "start")
                    => frame[t].trace[k].arg = Some(Requirements(t))
          /\ active_tasks'[t].data # active_tasks[t].data =>
                /\ active_tasks'[t].data = frame[t].response_data
                /\ active_tasks'[t].data[1] \in ResultsFor(Requirements(t))]_vars

\* C15 witness: two tasks ran concurrently and each record holds the
\* template written for its own requirements.
C15_Witness ==
    \E t, u \in Issued :
        /\ t # u
        /\ active_tasks[t].data # None
        /\ active_tasks[u].data # None
        /\ active_tasks[t].data[1].cfTemplate = AgentTemplate(Requirements(t))
        /\ active_tasks[u].data[1].cfTemplate = AgentTemplate(Requirements(u))
        /\ active_tasks[t].data[1].cfTemplate # active_tasks[u].data[1].cfTemplate
        /\ pc[t] = "L275" /\ pc[u] = "L275"

\* The generation has written a diagram file.
Saved(g) ==
    savers[g].pc = "done" /\ savers[g].diagram_url # Some(_get_fallback_diagram_url)

\* C16: two generations that each persist a diagram write files of
\* different names, and the file of each still holds its own diagram.
C16_DiagramFilesDistinct ==
    \A g \in SaverIds :
        Saved(g) =>
            /\ diagrams[DiagramFilename(savers[g].timestamp[1])].writer = g
            /\ \A h \in SaverIds \ {g} :
                    Saved(h) => savers[h].timestamp # savers[g].timestamp

\* The number of events of a kind a stage has in the trace of a call.
Count(trace, ev, stage) ==
    Cardinality({k \in 1..Len(trace) : trace[k].ev = ev /\ trace[k].stage = stage})

\* C17: within one call each stage's session is invoked at most once; a
\* stage that raised is not invoked again, and its value is its fallback.
C17_NoRetry ==
    \A t \in TaskIds : \A s \in StageNames :
        /\ Count(frame[t].trace, "start", s) <= 1
        /\ Count(frame[t].trace, "raise", s) + Count(frame[t].trace, "return", s)
                <= Count(frame[t].trace, "start", s)
        /\ (RaisedIn(frame[t].trace, s) /\ Local(frame[t], s) # None)
                => Local(frame[t], s) = Some(StageFallback(s))

\* C17 witness: the template session raised once, the later stages ran and
\* the call is over with the fallback template.
C17_Witness ==
    \E t \in TaskIds :
        /\ CallOver(t)
        /\ Count(frame[t].trace, "raise", "template") = 1
        /\ Count(frame[t].trace, "start", "template") = 1
        /\ Count(frame[t].trace, "start", "diagram") = 1
        /\ Count(frame[t].trace, "start", "pricing") = 1
        /\ frame[t].cf_template = Some(_get_fallback_cf_template)

\* The stage named fn has returned for a response (not an exception).
Answered(fn) ==
    call.fn = fn /\ call.result # None /\ ~call.outcome.raised

\* C18: when the stage-1 text holds none of the template patterns, the
\* template is the fixed fallback document, the one returned when the
\* template session raises.
C18_TemplateMissIsFallback ==
    (/\ Answered("_generate_cf_template")
     /\ call.outcome.value.yaml_block = None
     /\ call.outcome.value.bare_block = None
     /\ call.outcome.value.marker_run = None)
        => /\ call.result = Some(Return(_get_fallback_cf_template))
           /\ call.result = Some(_generate_cf_template(Raise("tool session error")))

\* C18 witness: the stage has answered a text without any template pattern.
C18_Witness ==
    /\ Answered("_generate_cf_template")
    /\ call.outcome.value.yaml_block = None
    /\ call.outcome.value.bare_block = None
    /\ call.outcome.value.marker_run = None
    /\ call.result[1].value.resources =
            <<"AWS::EC2::VPC", "AWS::EC2::Subnet", "AWS::EC2::Subnet">>

\* C19: when the stage-3 text holds no json block and no monetary pattern,
\* the pricing is the fixed pricing fallback: a total of $0.00 and the one
\* zero-cost line item, as when the pricing session raises.
C19_PricingMissIsFallback ==
    (/\ Answered("_calculate_pricing")
     /\ call.outcome.value.json_block = None
     /\ call.outcome.value.amounts = << >>
     /\ call.outcome.value.lines = << >>)
        => /\ call.result[1].value.totalMonthlyCost = "$0.00"
           /\ call.result[1].value.breakdown = _get_fallback_pricing.breakdown
           /\ call.result[1].value = _get_fallback_pricing
           /\ call.result = Some(_calculate_pricing(Raise("tool session error")))

\* The amount, in thousandths of a dollar, that a formatted total denotes.
Denoted(text) ==
    10 * (CHOOSE c \in 0..MaxCents : Money(10 * c) = text)

\* C20: for every pricing the stage returns, annual is twelve times the
\* amount totalMonthlyCost states when that amount is positive, and 0 when
\* it is 0.
C20_AnnualIsTwelveMonths ==
    (call.fn = "_calculate_pricing" /\ call.result # None) =>
        LET p == call.result[1].value IN
        p.annual = IF Denoted(p.totalMonthlyCost) > 0
                   THEN 12 * Denoted(p.totalMonthlyCost) ELSE 0

\* A pricing record as it is serialised: each field with the JSON type of the
\* Python value the extractor stored in it.
JsonPricing(p) ==
    [totalMonthlyCost |-> [string |-> p.totalMonthlyCost],
     currency |-> [string |-> p.currency],
     region |-> [string |-> p.region],
     annual |-> [number |-> p.annual]]

\* C21: for a json block whose totalMonthlyCost is the number m, the
\* result's totalMonthlyCost is m as a dollar amount with two decimals and
\* its annual is 12*m in the same form ('$42.50' and '$510.00' for 42.5).
C21_JsonTotalsRendered ==
    (/\ Answered("_calculate_pricing")
     /\ call.outcome.value.json_block # None
     /\ call.outcome.value.json_block[1].parses
     /\ "totalMonthlyCost" \in DOMAIN call.outcome.value.json_block[1].obj)
        => LET m == call.outcome.value.json_block[1].obj.totalMonthlyCost
               p == JsonPricing(call.result[1].value)
           IN  /\ p.totalMonthlyCost = [string |-> Money(m)]
               /\ p.annual = [string |-> Money(12 * m)]
               /\ m = 42500 =>
                    /\ p.totalMonthlyCost = [string |-> "$42.50"]
                    /\ p.annual = [string |-> "$510.00"]

\* C22: whatever the stage-1 text, the template the stage returns is not
\* empty and begins with the version marker.
C22_TemplateNeverEmpty ==
    (call.fn = "_generate_cf_template" /\ call.result # None) =>
        /\ call.result[1].value # EmptyText
        /\ call.result[1].value.version = VersionMarker

\* C23: when the stage-1 text holds a yaml fence, the template is the
\* trimmed content of the first such fence, whatever untagged fence or bare
\* marker the text also holds.
C23_YamlFenceWins ==
    (Answered("_generate_cf_template") /\ call.outcome.value.yaml_block # None) =>
        call.result[1].value = call.outcome.value.yaml_block[1]

\* C23 witness: the text held a yaml fence and, after it, an untagged fence
\* with another template; the yaml fence's template was returned, not the
\* other one and not the fallback.
C23_Witness ==
    /\ Answered("_generate_cf_template")
    /\ call.outcome.value.yaml_block # None
    /\ call.outcome.value.bare_block # None
    /\ call.outcome.value.bare_block # call.outcome.value.yaml_block
    /\ call.result[1].value = AgentTemplate("3-tier web app")
    /\ call.result[1].value # _get_fallback_cf_template

\* C24: when the stage-3 text holds a json fence that parses, total,
\* currency, region and breakdown come from that block alone, with 'USD' and
\* 'us-east-1' where the block omits them; amounts stated elsewhere in the
\* text change nothing.
C24_JsonBlockPreferred ==
    (/\ Answered("_calculate_pricing")
     /\ call.outcome.value.json_block # None
     /\ call.outcome.value.json_block[1].parses)
        => LET obj == call.outcome.value.json_block[1].obj
               p == call.result[1].value
               items == IF "breakdown" \in DOMAIN obj THEN obj.breakdown ELSE << >>
           IN  /\ p.totalMonthlyCost =
                    Money(IF "totalMonthlyCost" \in DOMAIN obj
                          THEN obj.totalMonthlyCost ELSE 0)
               /\ p.currency = IF "currency" \in DOMAIN obj THEN obj.currency ELSE "USD"
               /\ p.region = IF "region" \in DOMAIN obj THEN obj.region ELSE "us-east-1"
               /\ Len(p.breakdown) = Len(items)
               /\ \A i \in 1..Len(items) :
                    /\ p.breakdown[i].service = items[i].service
                    /\ p.breakdown[i].cost = Money(items[i].monthlyCost)
               /\ call.result =
                    Some(_calculate_pricing(Return(
                        [call.outcome.value EXCEPT !.amounts = << >>, !.lines = << >>])))

\* C24 witness: the block states 1.25 and no currency or region while the
\* text beside it states another amount; the result is $1.25, USD, us-east-1.
C24_Witness ==
    /\ Answered("_calculate_pricing")
    /\ call.outcome.value.json_block # None
    /\ call.outcome.value.json_block[1].parses
    /\ call.outcome.value.json_block[1].obj = [totalMonthlyCost |-> 1250]
    /\ call.outcome.value.amounts = <<Some(9996)>>
    /\ call.result[1].value.totalMonthlyCost = "$1.25"
    /\ call.result[1].value.currency = "USD"
    /\ call.result[1].value.region = "us-east-1"

\* C25: when the stage-3 text holds a json fence that does not parse, the
\* pricing is what the scan of the pricing patterns over the same text
\* gives, with the first amount found as its total.
C25_JsonFailureFallsBackToScan ==
    (/\ Answered("_calculate_pricing")
     /\ call.outcome.value.json_block # None
     /\ ~call.outcome.value.json_block[1].parses)
        => /\ call.result[1].value = PricingFromText(call.outcome.value)
           /\ call.outcome.value.amounts = <<Some(9996)>>
                => call.result[1].value.totalMonthlyCost = "$10.00"

\* C26: the placeholder is returned exactly when no embedded image is
\* decoded and written and no found path exists and copies, and then the
\* generation has written no file; otherwise the url names the generated
\* file, whose content is the embedded image whenever there is one.
C26_DiagramStrategies ==
    \A g \in SaverIds :
        savers[g].pc = "done" =>
            LET r == savers[g].response[1]
                embedded == \E i \in 1..Len(r.base64) : r.base64[i]
                copied == \E i \in 1..Len(r.paths) : r.paths[i].exists /\ r.paths[i].copies
                url == savers[g].diagram_url[1]
                file == DiagramFilename(savers[g].timestamp[1])
            IN  /\ (url = "/diagram/sample.png") <=> (~embedded /\ ~copied)
                /\ url = "/diagram/sample.png" =>
                        \A f \in DOMAIN diagrams : diagrams[f].writer # g
                /\ url # "/diagram/sample.png" =>
                        /\ url = DiagramUrl(savers[g].timestamp[1])
                        /\ file \in DOMAIN diagrams
                        /\ diagrams[file].writer = g =>
                              diagrams[file].source =
                                  IF embedded THEN "base64" ELSE "copy"

\* C26 witness: one generation whose text held both an embedded image and
\* the path of an existing file saved the image; another, whose payload did
\* not decode and whose copy failed, got the placeholder.
C26_Witness ==
    \E g, h \in SaverIds :
        /\ savers[g].pc = "done" /\ savers[h].pc = "done"
        /\ savers[g].response[1].base64 = <<TRUE>>
        /\ savers[g].response[1].paths = <<[exists |-> TRUE, copies |-> TRUE]>>
        /\ diagrams[DiagramFilename(savers[g].timestamp[1])] =
                [writer |-> g, source |-> "base64"]
        /\ savers[h].response[1].base64 = <<FALSE>>
        /\ savers[h].response[1].paths = <<[exists |-> TRUE, copies |-> FALSE]>>
        /\ savers[h].diagram_url = Some("/diagram/sample.png")

\* C27: a poller sees a state of its own for each stage: while the diagram
\* stage or the pricing stage of a task runs, the polled status and progress
\* are no longer those of the template stage, and those of the pricing stage
\* are not those of the diagram stage (the labels being generating_diagram
\* and calculating_pricing).
C27_StageCheckpoints ==
    \A t \in Issued :
        LET seen == Polled(active_tasks, t) IN
            /\ pc[t] = "A224" =>
                    /\ <<seen.status, seen.progress>> # <<"generating_cf", 20>>
                    /\ seen.status # "calculating_pricing"
            /\ pc[t] = "A283" =>
                    /\ <<seen.status, seen.progress>> # <<"generating_cf", 20>>
                    /\ seen.status # "generating_diagram"

\* The values the template stage can produce for a call: the template
\* extracted from a response of its session, or the stage's fallback.
TemplateStageValues(f) ==
    {_generate_cf_template(o).value :
        o \in SessionOutcomes(CfResponses(f.requirements[1]))}

\* The diagram stage and the pricing stage were each handed the template
\* stage's value.
TemplateHandedOn(f) ==
    \A k \in 1..Len(f.trace) :
        (f.trace[k].ev = "start" /\ f.trace[k].stage \in {"diagram", "pricing"}) =>
            /\ f.cf_template # None
            /\ f.cf_template[1] \in TemplateStageValues(f)
            /\ f.trace[k].arg = f.cf_template

C29_SingleAgent ==
    /\ Len(agents) <= 1
    /\ \A t, u \in TaskIds :
          (frame[t].agent # 0 /\ frame[u].agent # 0) =>
              frame[t].agent = frame[u].agent

\* C30: every task start_generation created eventually has a terminal
\* status, its worker being scheduled and each tool-session call returning
\* or raising.
C30_EveryTaskTerminates ==
    \A t \in TaskIds :
        (t \in Issued) ~> (t \in Issued /\ Terminal(active_tasks[t]))

\* C30 witness: every task that can be created was created, went through
\* its three stages or failed before them, and is terminal.
C30_Witness ==
    /\ Issued = TaskIds
    /\ \A t \in TaskIds :
          /\ pc[t] = "done"
          /\ Terminal(active_tasks[t])
          /\ active_tasks[t].completed_at # None

====
